---- MODULE Spec2Model ----
(***************************************************************************)
(* CoLearn dialogue session engine (src/app/page.tsx, the TypeScript       *)
(* component that starts at line 1155).                                    *)
(*                                                                         *)
(* The component keeps its session in React state hooks.  A handler runs   *)
(* to its first await as one step; what follows an await (the gateway's    *)
(* answer, a setTimeout callback) is a later step that reads the values    *)
(* captured when the handler was called and updates the state of that      *)
(* moment.  Pending gateway calls and pending timers are bags of records   *)
(* holding the captured values.                                            *)
(*                                                                         *)
(* Texts are sequences of chunks; the chunks " " and line break are white  *)
(* space, so that trim() is computed and not assumed.  Timestamps are left *)
(* out.                                                                    *)
(***************************************************************************)
EXTENDS Integers, Sequences, FiniteSets, Bags, TLC

\* ---------------------------------------------------------------- bounds
\* sendTurn is not called any more once exchangeCount has reached this
MaxExchange == 12
\* departures from the plain course of a session in one run: a gateway
\* failure, a rejected send, a send or a lock while a call or a callback is
\* pending, a manual or a recorded reflection, an end-of-session answer, a
\* skipped end reflection, a dismissed prompt, a reset, the choice of a file
\* to upload, its extraction
MaxIncidents == 2
\* largest elapsed time read from the clock at lock
MaxElapsed == 1
\* largest exchange count the pure functions are probed with
MaxProbe == 30
\* most numbered headings in an analysis text given to the parser
MaxSections == 6

\* ----------------------------------------------------------------- texts
WS == " "
NL == "\n"
WhiteSpace == {WS, NL}

RECURSIVE TrimStart(_)
TrimStart(s) ==
  IF s # <<>> /\ Head(s) \in WhiteSpace THEN TrimStart(Tail(s)) ELSE s

RECURSIVE TrimEnd(_)
TrimEnd(s) ==
  IF s # <<>> /\ s[Len(s)] \in WhiteSpace THEN TrimEnd(SubSeq(s, 1, Len(s) - 1)) ELSE s

\* String.prototype.trim
Trim(s) == TrimEnd(TrimStart(s))

\* a value that may be null: <<>> is null, <<x>> is x
Null == <<>>
Some(x) == <<x>>

\* what the learner can type into the message box
InputTexts == { <<>>, <<WS>>, <<"msg">> }
\* what the learner can type on the setup screen
QuestionTexts == { <<>>, <<WS>>, <<"focus">> }
SourceTexts == { <<>>, <<WS>>, <<"source">> }
\* what the extraction of an uploaded file can yield
DocumentTexts == { <<WS>>, <<"document">> }
\* what the learner can type into the reflection modal
ReflectionTexts == { <<>>, <<"thought">> }
\* what the learner can type into an end-of-session answer
AnswerTexts == { <<>>, <<"answer">> }
\* what the gateway can return
ReplyTexts == { <<"reply">> }
GeneratedTexts == { <<WS, "generated", WS>> }
\* what the gateway can return for the process question: a question, or an
\* answer of white space only
GeneratedQuestions == GeneratedTexts \cup { <<WS>> }

\* -------------------------------------------------------- fixed messages
SessionStartedText(q) == <<"CoLearn session started. Focus question: \"">> \o q \o <<"\"">>
StartErrorText == <<"Error: Unable to start dialogue. Please check your API key and try again.">>
ContinueErrorText == <<"Error: Unable to continue dialogue. Please try again.">>
StretchNoticeText == 
  <<"Now exploring complexity and tension - expect questions that challenge assumptions and reveal different perspectives">>
DeepenNoticeText == 
  <<"Entering reflection phase - focusing on how your thinking has evolved through our dialogue">>
EarlyReflectionText == <<"What's something that surprised you or disrupted your initial assumptions so far?">>
MidReflectionText == <<"Has your view changed since the start of this dialogue? What shifted, and why?">>
LaterReflectionFallbackText == 
  <<"How has this dialogue changed the way you're thinking about the topic? What moments felt most generative or uncertain?">>
ProcessingFileText == <<"Processing file...">>
FileUploadedText == <<"Document uploaded successfully">>
FileErrorText == <<"Error processing file. Please try uploading again or copy and paste the content manually.">>
AnalysisErrorText == <<"Unable to generate analysis due to technical error. Please try again.">>
NoReflectionProvided == <<"No reflection provided">>

\* the seven fallback process questions of lockSession
enhancedFallbacks ==
  << <<"Was there a moment in our exchange where your thinking changed direction or deepened? What prompted that shift?">>,
     <<"How did engaging in dialogue (rather than just getting answers) affect the way you understood this topic?">>,
     <<"Did any part of our conversation challenge how you usually think or talk about this subject? Why?">>,
     <<"How did you decide when to agree, disagree, or push back on the AI's ideas? What does that say about your thinking process?">>,
     <<"Did our dialogue help you see patterns in your own assumptions or approach? If so, which ones?">>,
     <<"What surprised you about how your understanding evolved through this back-and-forth conversation?">>,
     <<"How did having to articulate your thoughts to the AI change how you thought about the topic?">> >>

\* ----------------------------------------------------- dialogue entries
Entry(t, c) == [type |-> t, content |-> c, prompt |-> <<>>]
ReflectionEntry(p, c) == [type |-> "reflection", content |-> c, prompt |-> p]

RECURSIVE CountType(_, _)
CountType(log, t) ==
  IF log = <<>> THEN 0
  ELSE (IF Head(log).type = t THEN 1 ELSE 0) + CountType(Tail(log), t)

\* ------------------------------------------------- stage of a count
\* variant: the directive of the count before the turn's increment
continuingStage_preIncrement(n) ==
  IF n - 1 <= 4 THEN "EARLY STAGE" ELSE IF n - 1 <= 8 THEN "MID STAGE" ELSE "LATER STAGE"
\* directive block of the continuation prompt
continuingStage(n) ==
  IF n <= 4 THEN "EARLY STAGE" ELSE IF n <= 8 THEN "MID STAGE" ELSE "LATER STAGE"

\* "Learning Phase Reached" of the analysis prompt
analysisPhase(n) ==
  IF n <= 4 THEN "Phase 1: Ground" ELSE IF n <= 8 THEN "Phase 2: Stretch" ELSE "Phase 3: Deepen"

\* phase label of the dialogue screen
phaseLabel(n) ==
  IF n <= 4 THEN "1: Ground" ELSE IF n <= 8 THEN "2: Stretch" ELSE "3: Deepen"

\* variant: the report moves to the second phase one exchange early
exportPhases_early(n) ==
  IF n < 4 THEN "Phase 1 (Ground) only"
  ELSE IF n <= 8 THEN "Phases 1-2 (Ground, Stretch)"
  ELSE "All 3 Phases (Ground, Stretch, Deepen)"
\* "Learning Phases Reached" of the exported report
exportPhases(n) ==
  IF n <= 4 THEN "Phase 1 (Ground) only"
  ELSE IF n <= 8 THEN "Phases 1-2 (Ground, Stretch)"
  ELSE "All 3 Phases (Ground, Stretch, Deepen)"

\* variant: 4, 8, then every sixth count past 8
shouldTrigger_everySixthPast8(n) == n = 4 \/ n = 8 \/ (n > 8 /\ (n - 8) % 6 = 0)
\* condition under which a successful turn schedules the reflection prompt
shouldTrigger(n) == n = 4 \/ n = 8 \/ (n > 8 /\ n % 6 = 0)

\* condition under which a successful turn schedules the continue prompt
shouldAdvise(n) == n >= 12 /\ n % 4 = 0

\* stage-transition notice scheduled when a turn is accepted
stageNotice(n) ==
  IF n = 5 THEN Some(StretchNoticeText)
  ELSE IF n = 9 THEN Some(DeepenNoticeText)
  ELSE Null

\* ------------------------------------------------------------- state
VARIABLES
  sessionActive, sessionLocked, sourceText, focusQuestion, dialogue,
  currentInput, isProcessing, reflectionPrompts, showReflectionModal,
  currentReflection, sessionAnalysis, exchangeCount, showContinuePrompt,
  showEndReflection, endReflectionAnswers, generatedProcessQuestion,
  sessionStartTime, sessionDuration, reflectionInput,
  hiddenDocumentContent, documentUploaded,
  calls,      \* bag of gateway calls awaiting their answer
  timers,     \* bag of setTimeout callbacks not yet run
  turnStats,  \* history: dialogue turns of this session that succeeded / failed,
              \* and whether the alert of startSession is the last thing that
              \* happened on the setup screen
  incidents,  \* history: departures from the plain course so far
  probe       \* input and outputs of the pure functions under SpecPure, SpecParse

session == <<sessionActive, sessionLocked, sourceText, focusQuestion, dialogue,
             currentInput, isProcessing, reflectionPrompts, showReflectionModal,
             currentReflection, sessionAnalysis, exchangeCount, showContinuePrompt,
             showEndReflection, endReflectionAnswers, generatedProcessQuestion,
             sessionStartTime, sessionDuration, reflectionInput,
             hiddenDocumentContent, documentUploaded>>

vars == <<session, calls, timers, turnStats, incidents, probe>>

NoProbe == [fn |-> "none", n |-> 0, stages |-> <<>>, flag |-> FALSE]

Init ==
  /\ sessionActive = FALSE
  /\ sessionLocked = FALSE
  /\ sourceText = <<>>
  /\ focusQuestion = <<>>
  /\ dialogue = <<>>
  /\ currentInput = <<>>
  /\ isProcessing = FALSE
  /\ reflectionPrompts = <<>>
  /\ showReflectionModal = FALSE
  /\ currentReflection = <<>>
  /\ sessionAnalysis = Null
  /\ exchangeCount = 0
  /\ showContinuePrompt = FALSE
  /\ showEndReflection = FALSE
  /\ endReflectionAnswers = << <<>>, <<>> >>
  /\ generatedProcessQuestion = <<>>
  /\ sessionStartTime = Null
  /\ sessionDuration = Null
  /\ reflectionInput = <<>>
  /\ hiddenDocumentContent = <<>>
  /\ documentUploaded = FALSE
  /\ calls = EmptyBag
  /\ timers = EmptyBag
  /\ turnStats = [ok |-> 0, failed |-> 0, alerts |-> 0, material |-> <<>>]
  /\ incidents = 0
  /\ probe = NoProbe

\* ------------------------------------------------------ prompt parts
\* the text box shows the notice of an upload (startsWith of its first sign)
StartsWithUploadMark(visibleText) ==
  /\ visibleText # <<>>
  /\ Head(visibleText) \in {Head(FileUploadedText), Head(ProcessingFileText)}

\* getSourceMaterial: the uploaded content and the text of the box
getSourceMaterial ==
  LET visibleText == Trim(sourceText)
      hiddenText == Trim(hiddenDocumentContent)
  IN IF hiddenText # <<>> /\ ~StartsWithUploadMark(visibleText)
     THEN <<"UPLOADED DOCUMENT CONTENT:">> \o hiddenText
            \o <<"ADDITIONAL CONTEXT PROVIDED BY USER:">> \o visibleText
     ELSE IF hiddenText # <<>> THEN hiddenText
     ELSE visibleText

APIMessage(role, content) == [role |-> role, content |-> content]

\* the user and ai entries of a log as messages, in the order of the log
RECURSIVE historyOf(_)
historyOf(log) ==
  IF log = <<>> THEN <<>>
  ELSE LET msg == Head(log)
       IN (IF msg.type \in {"user", "ai"}
           THEN << APIMessage(IF msg.type = "user" THEN "user" ELSE "assistant",
                              msg.content) >>
           ELSE <<>>) \o historyOf(Tail(log))

\* variant: a history that keeps the system entries of the log
conversationHistory_withSystem(log, text) ==
  [i \in 1..Len(log) |->
     APIMessage(IF log[i].type = "user" THEN "user" ELSE "assistant", log[i].content)]
    \o << APIMessage("user", text) >>
\* conversationHistory of handleSendMessage: the log the handler sees, then
\* the text just sent
conversationHistory(log, text) ==
  historyOf(log) \o << APIMessage("user", text) >>

\* ------------------------------------------------ pending continuations
\* a gateway call in flight: the operation that made it, the exchange count
\* and the stage directive of its prompt, the source material embedded in its
\* prompt, its message list, the answers it carries
Call(op, n, stage, answers) ==
  [op |-> op, n |-> n, stage |-> stage, answers |-> answers,
   material |-> <<>>, messages |-> <<>>, stale |-> FALSE]

Timer(kind, n, answers) ==
  [kind |-> kind, n |-> n, answers |-> answers, stale |-> FALSE]

NoAnswers == << <<>>, <<>> >>

Pending(bag) == BagToSet(bag)
Put(bag, x) == bag (+) SetToBag({x})
Take(bag, x) == bag (-) SetToBag({x})

\* the calls and timers of the session that reset() has not discarded
LiveCalls == { c \in Pending(calls) : ~c.stale }
LiveTimers == { t \in Pending(timers) : ~t.stale }

\* an incident is possible while the run has not used up its incidents
Incident == incidents < MaxIncidents /\ incidents' = incidents + 1
Plain == incidents' = incidents

\* the reflection modal lies over the whole screen: nothing under it is clicked
NoOverlay == ~showReflectionModal
\* the learner acts while a gateway call or a deferred callback is still
\* pending: possible at any moment, and a departure from the plain course
Paced == IF calls = EmptyBag /\ timers = EmptyBag THEN Plain ELSE Incident

\* ------------------------------------------------------------- screens
SetupScreen == ~sessionActive
EndReflectionScreen == sessionActive /\ showEndReflection
AnalysisScreen == sessionActive /\ sessionAnalysis # Null /\ ~showEndReflection
ActiveScreen == sessionActive /\ sessionAnalysis = Null /\ ~showEndReflection

\* ------------------------------------------------------- setup screen
SetFocusQuestion ==
  /\ SetupScreen /\ NoOverlay
  /\ \E q \in QuestionTexts : focusQuestion' = q
  /\ Plain
  /\ turnStats' = [turnStats EXCEPT !.alerts = 0]
  /\ UNCHANGED <<sessionActive, sessionLocked, sourceText, hiddenDocumentContent,
                 documentUploaded, dialogue, currentInput,
                 isProcessing, reflectionPrompts, showReflectionModal,
                 currentReflection, sessionAnalysis, exchangeCount,
                 showContinuePrompt, showEndReflection, endReflectionAnswers,
                 generatedProcessQuestion, sessionStartTime, sessionDuration,
                 reflectionInput, calls, timers, probe>>

SetSourceText ==
  /\ SetupScreen /\ NoOverlay
  /\ \E s \in SourceTexts : sourceText' = s
  /\ Plain
  /\ turnStats' = [turnStats EXCEPT !.alerts = 0]
  /\ UNCHANGED <<sessionActive, sessionLocked, focusQuestion, dialogue, currentInput,
                 isProcessing, reflectionPrompts, showReflectionModal,
                 currentReflection, sessionAnalysis, exchangeCount,
                 showContinuePrompt, showEndReflection, endReflectionAnswers,
                 generatedProcessQuestion, sessionStartTime, sessionDuration,
                 reflectionInput, hiddenDocumentContent, documentUploaded,
                 calls, timers, probe>>

\* handleFileUpload up to its first await: the file is chosen, its content
\* is not yet extracted
UploadFile ==
  /\ SetupScreen /\ NoOverlay
  /\ documentUploaded' = TRUE
  /\ sourceText' = ProcessingFileText
  /\ timers' = Put(timers, Timer("extract", 0, NoAnswers))
  /\ Incident
  /\ turnStats' = [turnStats EXCEPT !.alerts = 0]
  /\ UNCHANGED <<sessionActive, sessionLocked, focusQuestion, dialogue, currentInput,
                 isProcessing, reflectionPrompts, showReflectionModal,
                 currentReflection, sessionAnalysis, exchangeCount,
                 showContinuePrompt, showEndReflection, endReflectionAnswers,
                 generatedProcessQuestion, sessionStartTime, sessionDuration,
                 reflectionInput, hiddenDocumentContent, calls, probe>>

\* handleFileUpload after the extraction: the content is kept out of sight
\* and the text box reports the upload; the outer catch reports the error
ExtractReply(t, ok) ==
  /\ t.kind = "extract"
  /\ timers' = Take(timers, t)
  /\ IF ok
     THEN /\ \E content \in DocumentTexts : hiddenDocumentContent' = content
          /\ sourceText' = FileUploadedText
     ELSE /\ hiddenDocumentContent' = <<>>
          /\ sourceText' = FileErrorText
  /\ UNCHANGED <<sessionActive, sessionLocked, focusQuestion, dialogue, currentInput,
                 isProcessing, reflectionPrompts, showReflectionModal,
                 currentReflection, sessionAnalysis, exchangeCount,
                 showContinuePrompt, showEndReflection, endReflectionAnswers,
                 generatedProcessQuestion, sessionStartTime, sessionDuration,
                 reflectionInput, documentUploaded, calls, turnStats, probe>>

ExtractDone == \E t \in Pending(timers) : ExtractReply(t, TRUE) /\ Incident
ExtractFail == \E t \in Pending(timers) : ExtractReply(t, FALSE) /\ Incident

\* removeFile: the Remove button, shown while a file name is kept
RemoveFile ==
  /\ SetupScreen /\ NoOverlay
  /\ documentUploaded
  /\ hiddenDocumentContent' = <<>>
  /\ documentUploaded' = FALSE
  /\ sourceText' = <<>>
  /\ Plain
  /\ turnStats' = [turnStats EXCEPT !.alerts = 0]
  /\ UNCHANGED <<sessionActive, sessionLocked, focusQuestion, dialogue, currentInput,
                 isProcessing, reflectionPrompts, showReflectionModal,
                 currentReflection, sessionAnalysis, exchangeCount,
                 showContinuePrompt, showEndReflection, endReflectionAnswers,
                 generatedProcessQuestion, sessionStartTime, sessionDuration,
                 reflectionInput, calls, timers, probe>>

\* variant: a validation that does not look at the focus question
StartRejected_sourceOnly ==
  Trim(sourceText) = <<>> /\ Trim(hiddenDocumentContent) = <<>>
\* the validation at the head of startSession
StartRejected ==
  \/ (Trim(sourceText) = <<>> /\ Trim(hiddenDocumentContent) = <<>>)
  \/ Trim(focusQuestion) = <<>>

\* variant: startSession that does not count the focus question as an exchange
StartSession_uncounted ==
  /\ SetupScreen /\ NoOverlay
  /\ ~isProcessing
  /\ IF StartRejected
     THEN /\ turnStats' = [turnStats EXCEPT !.alerts = 1]
          /\ Plain
          /\ UNCHANGED <<session, calls, timers, probe>>
     ELSE /\ sessionActive' = TRUE
          /\ sessionStartTime' = Some(0)
          /\ dialogue' = << Entry("system", SessionStartedText(focusQuestion)),
                            Entry("user", focusQuestion) >>
          /\ isProcessing' = TRUE
          /\ exchangeCount' = 0
          /\ calls' = Put(calls, [Call("start", 1, "none", NoAnswers)
                                     EXCEPT !.material = getSourceMaterial,
                                            !.messages = << APIMessage("user", focusQuestion) >>])
          /\ turnStats' = [ok |-> 0, failed |-> 0, alerts |-> 0,
                           material |-> getSourceMaterial]
          /\ Plain
          /\ UNCHANGED <<sessionLocked, sourceText, hiddenDocumentContent,
                         documentUploaded, focusQuestion, currentInput,
                         reflectionPrompts, showReflectionModal, currentReflection,
                         sessionAnalysis, showContinuePrompt, showEndReflection,
                         endReflectionAnswers, generatedProcessQuestion,
                         sessionDuration, reflectionInput, timers, probe>>

\* startSession: the "Begin Learning Dialogue" button, disabled while processing
StartSession ==
  /\ SetupScreen /\ NoOverlay
  /\ ~isProcessing
  /\ IF StartRejected
     THEN /\ turnStats' = [turnStats EXCEPT !.alerts = 1]
          /\ Plain
          /\ UNCHANGED <<session, calls, timers, probe>>
     ELSE /\ sessionActive' = TRUE
          /\ sessionStartTime' = Some(0)
          /\ dialogue' = << Entry("system", SessionStartedText(focusQuestion)),
                            Entry("user", focusQuestion) >>
          /\ isProcessing' = TRUE
          /\ exchangeCount' = 1
          /\ calls' = Put(calls, [Call("start", 1, "none", NoAnswers)
                                     EXCEPT !.material = getSourceMaterial,
                                            !.messages = << APIMessage("user", focusQuestion) >>])
          /\ turnStats' = [ok |-> 0, failed |-> 0, alerts |-> 0,
                           material |-> getSourceMaterial]
          /\ Plain
          /\ UNCHANGED <<sessionLocked, sourceText, hiddenDocumentContent,
                         documentUploaded, focusQuestion, currentInput,
                         reflectionPrompts, showReflectionModal, currentReflection,
                         sessionAnalysis, showContinuePrompt, showEndReflection,
                         endReflectionAnswers, generatedProcessQuestion,
                         sessionDuration, reflectionInput, timers, probe>>

\* variant: a catch of startSession that appends no notice
StartReply_silentCatch(c, ok) ==
  /\ c.op = "start"
  /\ calls' = Take(calls, c)
  /\ IF ok
     THEN \E r \in ReplyTexts : dialogue' = Append(dialogue, Entry("ai", r))
     ELSE dialogue' = dialogue
  /\ isProcessing' = FALSE
  /\ UNCHANGED <<sessionActive, sessionLocked, sourceText, hiddenDocumentContent,
                 documentUploaded, focusQuestion, currentInput,
                 reflectionPrompts, showReflectionModal, currentReflection,
                 sessionAnalysis, exchangeCount, showContinuePrompt,
                 showEndReflection, endReflectionAnswers, generatedProcessQuestion,
                 sessionStartTime, sessionDuration, reflectionInput, timers,
                 turnStats, probe>>

\* startSession after its await: the opening reply, or the error notice
StartReply(c, ok) ==
  /\ c.op = "start"
  /\ calls' = Take(calls, c)
  /\ IF ok
     THEN \E r \in ReplyTexts : dialogue' = Append(dialogue, Entry("ai", r))
     ELSE dialogue' = Append(dialogue, Entry("system", StartErrorText))
  /\ isProcessing' = FALSE
  /\ UNCHANGED <<sessionActive, sessionLocked, sourceText, hiddenDocumentContent,
                 documentUploaded, focusQuestion, currentInput,
                 reflectionPrompts, showReflectionModal, currentReflection,
                 sessionAnalysis, exchangeCount, showContinuePrompt,
                 showEndReflection, endReflectionAnswers, generatedProcessQuestion,
                 sessionStartTime, sessionDuration, reflectionInput, timers,
                 turnStats, probe>>

StartReplyOk == \E c \in Pending(calls) : StartReply(c, TRUE) /\ Plain
\* variant: a failed start that leaves the opening turn without a notice
StartReplyFail_silent == \E c \in Pending(calls) : StartReply_silentCatch(c, FALSE) /\ Incident
\* the gateway fails while startSession awaits it
StartReplyFail == \E c \in Pending(calls) : StartReply(c, FALSE) /\ Incident

\* ----------------------------------------------------- dialogue turns
\* variant: the early return without the processing check
SendRejected_noProcessingCheck(text) == Trim(text) = <<>> \/ sessionLocked
\* the early return at the head of handleSendMessage, text being currentInput
SendRejected(text) == Trim(text) = <<>> \/ isProcessing \/ sessionLocked

\* variant: handleSendMessage that does not look at sessionLocked
HandleSendMessage_noLockCheck(text) ==
  IF Trim(text) = <<>> \/ isProcessing
  THEN UNCHANGED <<dialogue, isProcessing, exchangeCount, timers, calls>>
  ELSE LET newExchangeCount == exchangeCount + 1
       IN /\ dialogue' = Append(dialogue, Entry("user", text))
          /\ isProcessing' = TRUE
          /\ exchangeCount' = exchangeCount + 1
          /\ timers' = IF stageNotice(newExchangeCount) # Null
                       THEN Put(timers, Timer("stageNotice", newExchangeCount, NoAnswers))
                       ELSE timers
          /\ calls' = Put(calls, [Call("turn", newExchangeCount,
                                       continuingStage(newExchangeCount), NoAnswers)
                                     EXCEPT !.material = getSourceMaterial,
                                            !.messages = conversationHistory(dialogue, text)])

\* handleSendMessage up to its await, text being currentInput
HandleSendMessage(text) ==
  IF SendRejected(text)
  THEN UNCHANGED <<dialogue, isProcessing, exchangeCount, timers, calls>>
  ELSE LET newExchangeCount == exchangeCount + 1
       IN /\ dialogue' = Append(dialogue, Entry("user", text))
          /\ isProcessing' = TRUE
          /\ exchangeCount' = exchangeCount + 1
          /\ timers' = IF stageNotice(newExchangeCount) # Null
                       THEN Put(timers, Timer("stageNotice", newExchangeCount, NoAnswers))
                       ELSE timers
          /\ calls' = Put(calls, [Call("turn", newExchangeCount,
                                       continuingStage(newExchangeCount), NoAnswers)
                                     EXCEPT !.material = getSourceMaterial,
                                            !.messages = conversationHistory(dialogue, text)])

\* The learner types a text into the message box and sends it.  The handler
\* is called from the dialogue screen; that the box and the button are disabled
\* while processing and hidden once locked repeats the handler's own guard and
\* is not relied upon.  An accepted call empties the box, after a rejected one
\* the text stays in it.
SendMessageWith(text) ==
  /\ ActiveScreen /\ NoOverlay
  /\ exchangeCount < MaxExchange
  /\ HandleSendMessage(text)
  /\ currentInput' = IF SendRejected(text) THEN text ELSE <<>>
  /\ IF SendRejected(text) THEN Incident ELSE Paced
  /\ UNCHANGED <<sessionActive, sessionLocked, sourceText, hiddenDocumentContent,
                 documentUploaded, focusQuestion,
                 reflectionPrompts, showReflectionModal, currentReflection,
                 sessionAnalysis, showContinuePrompt, showEndReflection,
                 endReflectionAnswers, generatedProcessQuestion,
                 sessionStartTime, sessionDuration, reflectionInput,
                 turnStats, probe>>

SendMessage == \E text \in InputTexts : SendMessageWith(text)

\* variant: the trigger looks at the count before the turn's increment
TurnTimers_preIncrement(n) ==
  (IF shouldTrigger(n - 1) THEN SetToBag({Timer("reflect", n - 1, NoAnswers)}) ELSE EmptyBag)
  (+) (IF shouldAdvise(n) THEN SetToBag({Timer("continuePrompt", n, NoAnswers)}) ELSE EmptyBag)

\* the timers a successful turn schedules after appending the reply
TurnTimers(n) ==
  (IF shouldTrigger(n) THEN SetToBag({Timer("reflect", n, NoAnswers)}) ELSE EmptyBag)
  (+) (IF shouldAdvise(n) THEN SetToBag({Timer("continuePrompt", n, NoAnswers)}) ELSE EmptyBag)

\* variant: a turn that keeps the processing flag until the reflection
\* question it has asked for is there
TurnOk_awaitsReflection(c) ==
  /\ c.op = "turn"
  /\ calls' = Take(calls, c)
  /\ \E r \in ReplyTexts : dialogue' = Append(dialogue, Entry("ai", r))
  /\ timers' = timers (+) TurnTimers(c.n)
  /\ isProcessing' = IF shouldTrigger(c.n) THEN isProcessing ELSE FALSE
  /\ turnStats' = IF c.stale THEN turnStats ELSE [turnStats EXCEPT !.ok = @ + 1]
  /\ Plain
  /\ UNCHANGED <<sessionActive, sessionLocked, sourceText, hiddenDocumentContent,
                 documentUploaded, focusQuestion, currentInput,
                 reflectionPrompts, showReflectionModal, currentReflection,
                 sessionAnalysis, exchangeCount, showContinuePrompt,
                 showEndReflection, endReflectionAnswers, generatedProcessQuestion,
                 sessionStartTime, sessionDuration, reflectionInput, probe>>

\* handleSendMessage after its await, the gateway having answered
TurnOk(c) ==
  /\ c.op = "turn"
  /\ calls' = Take(calls, c)
  /\ \E r \in ReplyTexts : dialogue' = Append(dialogue, Entry("ai", r))
  /\ timers' = timers (+) TurnTimers(c.n)
  /\ isProcessing' = FALSE
  /\ turnStats' = IF c.stale THEN turnStats ELSE [turnStats EXCEPT !.ok = @ + 1]
  /\ Plain
  /\ UNCHANGED <<sessionActive, sessionLocked, sourceText, hiddenDocumentContent,
                 documentUploaded, focusQuestion, currentInput,
                 reflectionPrompts, showReflectionModal, currentReflection,
                 sessionAnalysis, exchangeCount, showContinuePrompt,
                 showEndReflection, endReflectionAnswers, generatedProcessQuestion,
                 sessionStartTime, sessionDuration, reflectionInput, probe>>

TurnReplyOk == \E c \in Pending(calls) : TurnOk(c)

\* variant: a catch that leaves the processing flag set
TurnFail_stillProcessing(c) ==
  /\ c.op = "turn"
  /\ calls' = Take(calls, c)
  /\ dialogue' = Append(dialogue, Entry("system", ContinueErrorText))
  /\ isProcessing' = isProcessing
  /\ turnStats' = IF c.stale THEN turnStats ELSE [turnStats EXCEPT !.failed = @ + 1]
  /\ Incident
  /\ UNCHANGED <<sessionActive, sessionLocked, sourceText, hiddenDocumentContent,
                 documentUploaded, focusQuestion, currentInput,
                 reflectionPrompts, showReflectionModal, currentReflection,
                 sessionAnalysis, exchangeCount, showContinuePrompt,
                 showEndReflection, endReflectionAnswers, generatedProcessQuestion,
                 sessionStartTime, sessionDuration, reflectionInput, timers, probe>>

\* handleSendMessage after its await, the gateway having failed (the catch)
TurnFail(c) ==
  /\ c.op = "turn"
  /\ calls' = Take(calls, c)
  /\ dialogue' = Append(dialogue, Entry("system", ContinueErrorText))
  /\ isProcessing' = FALSE
  /\ turnStats' = IF c.stale THEN turnStats ELSE [turnStats EXCEPT !.failed = @ + 1]
  /\ Incident
  /\ UNCHANGED <<sessionActive, sessionLocked, sourceText, hiddenDocumentContent,
                 documentUploaded, focusQuestion, currentInput,
                 reflectionPrompts, showReflectionModal, currentReflection,
                 sessionAnalysis, exchangeCount, showContinuePrompt,
                 showEndReflection, endReflectionAnswers, generatedProcessQuestion,
                 sessionStartTime, sessionDuration, reflectionInput, timers, probe>>

TurnReplyFail == \E c \in Pending(calls) : TurnFail(c)

\* the 500 ms callback that appends the stage-transition notice
FireStageNoticeTimer(t) ==
  /\ t.kind = "stageNotice"
  /\ timers' = Take(timers, t)
  /\ dialogue' = Append(dialogue, Entry("system", stageNotice(t.n)[1]))
  /\ Plain
  /\ UNCHANGED <<sessionActive, sessionLocked, sourceText, hiddenDocumentContent,
                 documentUploaded, focusQuestion, currentInput,
                 isProcessing, reflectionPrompts, showReflectionModal,
                 currentReflection, sessionAnalysis, exchangeCount,
                 showContinuePrompt, showEndReflection, endReflectionAnswers,
                 generatedProcessQuestion, sessionStartTime, sessionDuration,
                 reflectionInput, calls, turnStats, probe>>

FireStageNotice == \E t \in Pending(timers) : FireStageNoticeTimer(t)

\* the 2000 ms callback that shows the "Ready to wrap up?" prompt
FireContinuePromptTimer(t) ==
  /\ t.kind = "continuePrompt"
  /\ timers' = Take(timers, t)
  /\ showContinuePrompt' = TRUE
  /\ Plain
  /\ UNCHANGED <<sessionActive, sessionLocked, sourceText, hiddenDocumentContent,
                 documentUploaded, focusQuestion, dialogue,
                 currentInput, isProcessing, reflectionPrompts, showReflectionModal,
                 currentReflection, sessionAnalysis, exchangeCount,
                 showEndReflection, endReflectionAnswers, generatedProcessQuestion,
                 sessionStartTime, sessionDuration, reflectionInput, calls,
                 turnStats, probe>>

FireContinuePrompt == \E t \in Pending(timers) : FireContinuePromptTimer(t)

\* the Continue button of the "Ready to wrap up?" prompt
DismissContinuePrompt ==
  /\ ActiveScreen /\ NoOverlay /\ showContinuePrompt /\ ~sessionLocked
  /\ showContinuePrompt' = FALSE
  /\ Incident
  /\ UNCHANGED <<sessionActive, sessionLocked, sourceText, hiddenDocumentContent,
                 documentUploaded, focusQuestion, dialogue,
                 currentInput, isProcessing, reflectionPrompts, showReflectionModal,
                 currentReflection, sessionAnalysis, exchangeCount,
                 showEndReflection, endReflectionAnswers, generatedProcessQuestion,
                 sessionStartTime, sessionDuration, reflectionInput, calls, timers,
                 turnStats, probe>>

\* --------------------------------------------------------- reflections
\* triggerReflectionPrompt(currentExchange) up to its await
TriggerReflectionPrompt(currentExchange) ==
  IF currentExchange <= 5
  THEN /\ currentReflection' = EarlyReflectionText
       /\ reflectionInput' = <<>>
       /\ showReflectionModal' = TRUE
       /\ calls' = calls
  ELSE IF currentExchange <= 8
  THEN /\ currentReflection' = MidReflectionText
       /\ reflectionInput' = <<>>
       /\ showReflectionModal' = TRUE
       /\ calls' = calls
  ELSE /\ calls' = Put(calls, Call("reflect", currentExchange, "none", NoAnswers))
       /\ UNCHANGED <<currentReflection, reflectionInput, showReflectionModal>>

\* the 1000 ms callback that a successful turn schedules
FireReflectTimer(t) ==
  /\ t.kind = "reflect"
  /\ timers' = Take(timers, t)
  /\ TriggerReflectionPrompt(t.n)
  /\ Plain
  /\ UNCHANGED <<sessionActive, sessionLocked, sourceText, hiddenDocumentContent,
                 documentUploaded, focusQuestion, dialogue,
                 currentInput, isProcessing, reflectionPrompts, sessionAnalysis,
                 exchangeCount, showContinuePrompt, showEndReflection,
                 endReflectionAnswers, generatedProcessQuestion, sessionStartTime,
                 sessionDuration, turnStats, probe>>

FireReflect == \E t \in Pending(timers) : FireReflectTimer(t)

\* the Reflect button of the dialogue screen
ReflectButton ==
  /\ ActiveScreen /\ NoOverlay
  /\ TriggerReflectionPrompt(exchangeCount)
  /\ Incident
  /\ UNCHANGED <<sessionActive, sessionLocked, sourceText, hiddenDocumentContent,
                 documentUploaded, focusQuestion, dialogue,
                 currentInput, isProcessing, reflectionPrompts, sessionAnalysis,
                 exchangeCount, showContinuePrompt, showEndReflection,
                 endReflectionAnswers, generatedProcessQuestion, sessionStartTime,
                 sessionDuration, timers, turnStats, probe>>

\* variant: a failure that is shown as an error entry of the log
ReflectReply_errorEntry(c, ok) ==
  /\ c.op = "reflect"
  /\ calls' = Take(calls, c)
  /\ IF ok
     THEN /\ \E g \in GeneratedTexts : currentReflection' = Trim(g)
          /\ dialogue' = dialogue
     ELSE /\ currentReflection' = LaterReflectionFallbackText
          /\ dialogue' = Append(dialogue, Entry("system", ContinueErrorText))
  /\ reflectionInput' = <<>>
  /\ showReflectionModal' = TRUE
  /\ UNCHANGED <<sessionActive, sessionLocked, sourceText, hiddenDocumentContent,
                 documentUploaded, focusQuestion,
                 currentInput, isProcessing, reflectionPrompts, sessionAnalysis,
                 exchangeCount, showContinuePrompt, showEndReflection,
                 endReflectionAnswers, generatedProcessQuestion, sessionStartTime,
                 sessionDuration, timers, turnStats, probe>>

\* triggerReflectionPrompt after its await: the generated question or the fallback
ReflectReply(c, ok) ==
  /\ c.op = "reflect"
  /\ calls' = Take(calls, c)
  /\ IF ok
     THEN \E g \in GeneratedTexts : currentReflection' = Trim(g)
     ELSE currentReflection' = LaterReflectionFallbackText
  /\ reflectionInput' = <<>>
  /\ showReflectionModal' = TRUE
  /\ UNCHANGED <<sessionActive, sessionLocked, sourceText, hiddenDocumentContent,
                 documentUploaded, focusQuestion, dialogue,
                 currentInput, isProcessing, reflectionPrompts, sessionAnalysis,
                 exchangeCount, showContinuePrompt, showEndReflection,
                 endReflectionAnswers, generatedProcessQuestion, sessionStartTime,
                 sessionDuration, timers, turnStats, probe>>

ReflectReplyOk == \E c \in Pending(calls) : ReflectReply(c, TRUE) /\ Plain
ReflectReplyFail == \E c \in Pending(calls) : ReflectReply(c, FALSE) /\ Incident

\* the Skip button of the reflection modal
SkipReflection ==
  /\ showReflectionModal
  /\ showReflectionModal' = FALSE
  /\ reflectionInput' = <<>>
  /\ Plain
  /\ UNCHANGED <<sessionActive, sessionLocked, sourceText, hiddenDocumentContent,
                 documentUploaded, focusQuestion, dialogue,
                 currentInput, isProcessing, reflectionPrompts, currentReflection,
                 sessionAnalysis, exchangeCount, showContinuePrompt,
                 showEndReflection, endReflectionAnswers, generatedProcessQuestion,
                 sessionStartTime, sessionDuration, calls, timers, turnStats, probe>>

\* variant: a submitReflection that puts the entry at the head of the log
submitReflection_atHead(reflectionText) ==
  /\ LET reflection == ReflectionEntry(currentReflection, reflectionText)
     IN /\ reflectionPrompts' = Append(reflectionPrompts, reflection)
        /\ dialogue' = <<reflection>> \o dialogue
  /\ showReflectionModal' = FALSE
  /\ currentReflection' = <<>>
  /\ reflectionInput' = <<>>

\* submitReflection(reflectionText)
submitReflection(reflectionText) ==
  /\ LET reflection == ReflectionEntry(currentReflection, reflectionText)
     IN /\ reflectionPrompts' = Append(reflectionPrompts, reflection)
        /\ dialogue' = Append(dialogue, reflection)
  /\ showReflectionModal' = FALSE
  /\ currentReflection' = <<>>
  /\ reflectionInput' = <<>>

\* the learner types a reflection into the modal and presses Submit
SubmitReflection ==
  /\ showReflectionModal
  /\ \E text \in ReflectionTexts : submitReflection(text)
  /\ Incident
  /\ UNCHANGED <<sessionActive, sessionLocked, sourceText, hiddenDocumentContent,
                 documentUploaded, focusQuestion, currentInput,
                 isProcessing, sessionAnalysis, exchangeCount, showContinuePrompt,
                 showEndReflection, endReflectionAnswers, generatedProcessQuestion,
                 sessionStartTime, sessionDuration, calls, timers, turnStats, probe>>

\* ---------------------------------------------------------------- lock
\* the End Session button of the dialogue screen, disabled below three entries
EndSessionButton == ActiveScreen /\ Len(dialogue) >= 3
\* the End Session button of the "Ready to wrap up?" prompt
ContinuePromptEndButton == ActiveScreen /\ showContinuePrompt /\ ~sessionLocked

\* variant: a lockSession that counts itself as an exchange
LockSession_counted ==
  /\ NoOverlay
  /\ EndSessionButton \/ ContinuePromptEndButton
  /\ sessionLocked' = TRUE
  /\ exchangeCount' = exchangeCount + 1
  /\ IF sessionStartTime # Null
     THEN \E elapsed \in 0 .. MaxElapsed :
            /\ sessionDuration # Null => elapsed >= sessionDuration[1]
            /\ sessionDuration' = Some(elapsed)
     ELSE sessionDuration' = sessionDuration
  /\ calls' = Put(calls, Call("lock", exchangeCount, "none", NoAnswers))
  /\ IF sessionLocked THEN Incident ELSE Paced
  /\ UNCHANGED <<sessionActive, sourceText, hiddenDocumentContent,
                 documentUploaded, focusQuestion, dialogue, currentInput,
                 isProcessing, reflectionPrompts, showReflectionModal,
                 currentReflection, sessionAnalysis,
                 showContinuePrompt, showEndReflection, endReflectionAnswers,
                 generatedProcessQuestion, sessionStartTime, reflectionInput,
                 timers, turnStats, probe>>

\* lockSession up to its await
LockSession ==
  /\ NoOverlay
  /\ EndSessionButton \/ ContinuePromptEndButton
  /\ sessionLocked' = TRUE
  /\ IF sessionStartTime # Null
     THEN \E elapsed \in 0 .. MaxElapsed :
            /\ sessionDuration # Null => elapsed >= sessionDuration[1]
            /\ sessionDuration' = Some(elapsed)
     ELSE sessionDuration' = sessionDuration
  /\ calls' = Put(calls, Call("lock", exchangeCount, "none", NoAnswers))
  /\ IF sessionLocked THEN Incident ELSE Paced
  /\ UNCHANGED <<sessionActive, sourceText, hiddenDocumentContent,
                 documentUploaded, focusQuestion, dialogue, currentInput,
                 isProcessing, reflectionPrompts, showReflectionModal,
                 currentReflection, sessionAnalysis, exchangeCount,
                 showContinuePrompt, showEndReflection, endReflectionAnswers,
                 generatedProcessQuestion, sessionStartTime, reflectionInput,
                 timers, turnStats, probe>>

\* variant: a lockSession that clears the processing flag when it ends
LockReply_clearsFlag(c, ok) ==
  /\ c.op = "lock"
  /\ calls' = Take(calls, c)
  /\ IF ok
     THEN \E g \in GeneratedQuestions :
            /\ generatedProcessQuestion' = Trim(g)
            /\ IF Trim(g) = <<>> THEN Incident ELSE Plain
     ELSE /\ \E i \in 1 .. Len(enhancedFallbacks) :
               generatedProcessQuestion' = enhancedFallbacks[i]
          /\ Incident
  /\ showEndReflection' = TRUE
  /\ isProcessing' = FALSE
  /\ UNCHANGED <<sessionActive, sessionLocked, sourceText, hiddenDocumentContent,
                 documentUploaded, focusQuestion, dialogue,
                 currentInput, reflectionPrompts, showReflectionModal,
                 currentReflection, sessionAnalysis, exchangeCount,
                 showContinuePrompt, endReflectionAnswers, sessionStartTime,
                 sessionDuration, reflectionInput, timers, turnStats, probe>>

\* lockSession after its await: the process question, generated or fallback
LockReply(c, ok) ==
  /\ c.op = "lock"
  /\ calls' = Take(calls, c)
  /\ IF ok
     THEN \E g \in GeneratedQuestions :
            /\ generatedProcessQuestion' = Trim(g)
            /\ IF Trim(g) = <<>> THEN Incident ELSE Plain
     ELSE /\ \E i \in 1 .. Len(enhancedFallbacks) :
               generatedProcessQuestion' = enhancedFallbacks[i]
          /\ Incident
  /\ showEndReflection' = TRUE
  /\ UNCHANGED <<sessionActive, sessionLocked, sourceText, hiddenDocumentContent,
                 documentUploaded, focusQuestion, dialogue,
                 currentInput, isProcessing, reflectionPrompts, showReflectionModal,
                 currentReflection, sessionAnalysis, exchangeCount,
                 showContinuePrompt, endReflectionAnswers, sessionStartTime,
                 sessionDuration, reflectionInput, timers, turnStats, probe>>

LockReplyOk == \E c \in Pending(calls) : LockReply(c, TRUE)
LockReplyFail == \E c \in Pending(calls) : LockReply(c, FALSE)

\* ------------------------------------------------------- end reflection
\* the two answer boxes of the end-reflection form (hidden while processing)
SetEndReflectionAnswer ==
  /\ EndReflectionScreen /\ NoOverlay /\ ~isProcessing
  /\ \E i \in 1 .. 2, a \in AnswerTexts :
       endReflectionAnswers' = [endReflectionAnswers EXCEPT ![i] = a]
  /\ Incident
  /\ UNCHANGED <<sessionActive, sessionLocked, sourceText, hiddenDocumentContent,
                 documentUploaded, focusQuestion, dialogue,
                 currentInput, isProcessing, reflectionPrompts, showReflectionModal,
                 currentReflection, sessionAnalysis, exchangeCount,
                 showContinuePrompt, showEndReflection, generatedProcessQuestion,
                 sessionStartTime, sessionDuration, reflectionInput, calls, timers,
                 turnStats, probe>>

\* handleEndReflectionSubmit up to its first await (the 100 ms pause); the
\* callback keeps the answers and the count of the render it was called from
HandleEndReflectionSubmit ==
  /\ isProcessing' = TRUE
  /\ timers' = Put(timers, Timer("analysisDelay", exchangeCount, endReflectionAnswers))

\* the "Get Learning Analysis" button
SubmitEndReflection ==
  /\ EndReflectionScreen /\ NoOverlay /\ ~isProcessing
  /\ HandleEndReflectionSubmit
  /\ Plain
  /\ UNCHANGED <<sessionActive, sessionLocked, sourceText, hiddenDocumentContent,
                 documentUploaded, focusQuestion, dialogue,
                 currentInput, reflectionPrompts, showReflectionModal,
                 currentReflection, sessionAnalysis, exchangeCount,
                 showContinuePrompt, showEndReflection, endReflectionAnswers,
                 generatedProcessQuestion, sessionStartTime, sessionDuration,
                 reflectionInput, calls, turnStats, probe>>

\* the "Skip Reflection" button: closes the form, clears the answers, then
\* calls handleEndReflectionSubmit
SkipEndReflection ==
  /\ EndReflectionScreen /\ NoOverlay /\ ~isProcessing
  /\ showEndReflection' = FALSE
  /\ endReflectionAnswers' = NoAnswers
  /\ HandleEndReflectionSubmit
  /\ Incident
  /\ UNCHANGED <<sessionActive, sessionLocked, sourceText, hiddenDocumentContent,
                 documentUploaded, focusQuestion, dialogue,
                 currentInput, reflectionPrompts, showReflectionModal,
                 currentReflection, sessionAnalysis, exchangeCount,
                 showContinuePrompt, generatedProcessQuestion, sessionStartTime,
                 sessionDuration, reflectionInput, calls, turnStats, probe>>

\* handleEndReflectionSubmit after the 100 ms pause: the analysis request
FireAnalysisDelay ==
  \E t \in Pending(timers) :
    /\ t.kind = "analysisDelay"
    /\ timers' = Take(timers, t)
    /\ calls' = Put(calls, [Call("analysis", t.n, analysisPhase(t.n), t.answers)
                            EXCEPT !.stale = t.stale])
    /\ Plain
    /\ UNCHANGED <<session, turnStats, probe>>

\* answer || 'No reflection provided'
OrNoReflection(a) == IF a = <<>> THEN NoReflectionProvided ELSE a

studentReflections(answers) ==
  [contentLearning |-> OrNoReflection(answers[1]),
   processLearning |-> OrNoReflection(answers[2])]

\* variant: a catch that sets no analysis
AnalysisReply_noPlaceholder(c, ok) ==
  /\ c.op = "analysis"
  /\ calls' = Take(calls, c)
  /\ sessionAnalysis' =
       IF ok THEN Some([content |-> CHOOSE r \in ReplyTexts : TRUE,
                        studentReflections |-> studentReflections(c.answers)])
       ELSE sessionAnalysis
  /\ \/ /\ showEndReflection' = FALSE
        /\ isProcessing' = FALSE
        /\ timers' = timers
     \/ /\ timers' = Put(timers, [Timer("analysisMinLoading", c.n, NoAnswers)
                                  EXCEPT !.stale = c.stale])
        /\ UNCHANGED <<showEndReflection, isProcessing>>
  /\ UNCHANGED <<sessionActive, sessionLocked, sourceText, hiddenDocumentContent,
                 documentUploaded, focusQuestion, dialogue,
                 currentInput, reflectionPrompts, showReflectionModal,
                 currentReflection, exchangeCount, showContinuePrompt,
                 endReflectionAnswers, generatedProcessQuestion, sessionStartTime,
                 sessionDuration, reflectionInput, turnStats, probe>>

\* handleEndReflectionSubmit after the gateway's answer; when the answer took
\* less than MINIMUM_LOADING_TIME the rest waits for another timer
AnalysisReply(c, ok) ==
  /\ c.op = "analysis"
  /\ calls' = Take(calls, c)
  /\ sessionAnalysis' =
       Some([content |-> IF ok THEN CHOOSE r \in ReplyTexts : TRUE
                         ELSE AnalysisErrorText,
             studentReflections |-> studentReflections(c.answers)])
  /\ \/ /\ showEndReflection' = FALSE
        /\ isProcessing' = FALSE
        /\ timers' = timers
     \/ /\ timers' = Put(timers, [Timer("analysisMinLoading", c.n, NoAnswers)
                                  EXCEPT !.stale = c.stale])
        /\ UNCHANGED <<showEndReflection, isProcessing>>
  /\ UNCHANGED <<sessionActive, sessionLocked, sourceText, hiddenDocumentContent,
                 documentUploaded, focusQuestion, dialogue,
                 currentInput, reflectionPrompts, showReflectionModal,
                 currentReflection, exchangeCount, showContinuePrompt,
                 endReflectionAnswers, generatedProcessQuestion, sessionStartTime,
                 sessionDuration, reflectionInput, turnStats, probe>>

AnalysisReplyOk == \E c \in Pending(calls) : AnalysisReply(c, TRUE) /\ Plain
AnalysisReplyFail == \E c \in Pending(calls) : AnalysisReply(c, FALSE) /\ Incident

\* variant: an end of handleEndReflectionSubmit that leaves the flag set
FireAnalysisMinLoading_stillProcessing ==
  \E t \in Pending(timers) :
    /\ t.kind = "analysisMinLoading"
    /\ timers' = Take(timers, t)
    /\ showEndReflection' = FALSE
    /\ isProcessing' = isProcessing
    /\ Plain
    /\ UNCHANGED <<sessionActive, sessionLocked, sourceText, hiddenDocumentContent,
                 documentUploaded, focusQuestion, dialogue,
                   currentInput, reflectionPrompts, showReflectionModal,
                   currentReflection, sessionAnalysis, exchangeCount,
                   showContinuePrompt, endReflectionAnswers,
                   generatedProcessQuestion, sessionStartTime, sessionDuration,
                   reflectionInput, calls, turnStats, probe>>

\* the end of handleEndReflectionSubmit
FireAnalysisMinLoading ==
  \E t \in Pending(timers) :
    /\ t.kind = "analysisMinLoading"
    /\ timers' = Take(timers, t)
    /\ showEndReflection' = FALSE
    /\ isProcessing' = FALSE
    /\ Plain
    /\ UNCHANGED <<sessionActive, sessionLocked, sourceText, hiddenDocumentContent,
                 documentUploaded, focusQuestion, dialogue,
                   currentInput, reflectionPrompts, showReflectionModal,
                   currentReflection, sessionAnalysis, exchangeCount,
                   showContinuePrompt, endReflectionAnswers,
                   generatedProcessQuestion, sessionStartTime, sessionDuration,
                   reflectionInput, calls, turnStats, probe>>

\* ---------------------------------------------------------------- reset
\* what was pending when resetSession ran belongs to the session it discarded
Discard(bag) ==
  LET old == { [x EXCEPT !.stale = TRUE] : x \in BagToSet(bag) }
  IN [r \in old |-> CopiesIn(r, bag) + CopiesIn([r EXCEPT !.stale = FALSE], bag)]

\* resetSession: Restart on the dialogue screen, Start New Session on the
\* analysis screen
ResetSession ==
  /\ NoOverlay
  /\ ActiveScreen \/ AnalysisScreen
  /\ sessionActive' = FALSE
  /\ sessionLocked' = FALSE
  /\ dialogue' = <<>>
  /\ reflectionPrompts' = <<>>
  /\ sessionAnalysis' = Null
  /\ exchangeCount' = 0
  /\ currentInput' = <<>>
  /\ sourceText' = <<>>
  /\ focusQuestion' = <<>>
  /\ showContinuePrompt' = FALSE
  /\ showEndReflection' = FALSE
  /\ endReflectionAnswers' = NoAnswers
  /\ generatedProcessQuestion' = <<>>
  /\ sessionStartTime' = Null
  /\ sessionDuration' = Null
  /\ reflectionInput' = <<>>
  /\ hiddenDocumentContent' = <<>>
  /\ documentUploaded' = FALSE
  /\ calls' = Discard(calls)
  /\ timers' = Discard(timers)
  /\ turnStats' = [ok |-> 0, failed |-> 0, alerts |-> 0, material |-> <<>>]
  /\ Incident
  /\ UNCHANGED <<isProcessing, showReflectionModal, currentReflection, probe>>

\* -------------------------------------------------------- specification
Next ==
  \/ SetFocusQuestion \/ SetSourceText \/ StartSession
  \/ UploadFile \/ ExtractDone \/ ExtractFail \/ RemoveFile
  \/ StartReplyOk \/ StartReplyFail
  \/ SendMessage \/ TurnReplyOk \/ TurnReplyFail
  \/ FireStageNotice \/ FireContinuePrompt \/ DismissContinuePrompt
  \/ FireReflect \/ ReflectButton \/ ReflectReplyOk \/ ReflectReplyFail
  \/ SkipReflection \/ SubmitReflection
  \/ LockSession \/ LockReplyOk \/ LockReplyFail
  \/ SetEndReflectionAnswer \/ SubmitEndReflection \/ SkipEndReflection
  \/ FireAnalysisDelay \/ AnalysisReplyOk \/ AnalysisReplyFail
  \/ FireAnalysisMinLoading
  \/ ResetSession

Spec == Init /\ [][Next]_vars

\* ------------------------------------------- the pure functions, probed
\* every exchange count up to MaxProbe is an input
ProbeInputs == { [NoProbe EXCEPT !.fn = "input", !.n = k] : k \in 0 .. MaxProbe }

InitPure ==
  /\ sessionActive = FALSE /\ sessionLocked = FALSE
  /\ sourceText = <<>> /\ focusQuestion = <<>> /\ dialogue = <<>>
  /\ currentInput = <<>> /\ isProcessing = FALSE /\ reflectionPrompts = <<>>
  /\ showReflectionModal = FALSE /\ currentReflection = <<>>
  /\ sessionAnalysis = Null /\ exchangeCount = 0
  /\ showContinuePrompt = FALSE /\ showEndReflection = FALSE
  /\ endReflectionAnswers = NoAnswers /\ generatedProcessQuestion = <<>>
  /\ sessionStartTime = Null /\ sessionDuration = Null /\ reflectionInput = <<>>
  /\ hiddenDocumentContent = <<>> /\ documentUploaded = FALSE
  /\ calls = EmptyBag /\ timers = EmptyBag
  /\ turnStats = [ok |-> 0, failed |-> 0, alerts |-> 0, material |-> <<>>] /\ incidents = 0
  /\ probe \in ProbeInputs

\* the four places that derive the stage from the exchange count
ApplyStages ==
  /\ probe.fn = "input"
  /\ probe' = [probe EXCEPT !.fn = "stages",
                 !.stages = << continuingStage(probe.n), analysisPhase(probe.n),
                               phaseLabel(probe.n), exportPhases(probe.n) >>]
  /\ UNCHANGED <<session, calls, timers, turnStats, incidents>>

ApplyShouldTrigger ==
  /\ probe.fn = "input"
  /\ probe' = [probe EXCEPT !.fn = "shouldTrigger", !.flag = shouldTrigger(probe.n)]
  /\ UNCHANGED <<session, calls, timers, turnStats, incidents>>

ApplyShouldAdvise ==
  /\ probe.fn = "input"
  /\ probe' = [probe EXCEPT !.fn = "shouldAdvise", !.flag = shouldAdvise(probe.n)]
  /\ UNCHANGED <<session, calls, timers, turnStats, incidents>>

ApplyStageNotice ==
  /\ probe.fn = "input"
  /\ probe' = [probe EXCEPT !.fn = "stageNotice",
                 !.flag = (stageNotice(probe.n) # Null),
                 !.stages = stageNotice(probe.n)]
  /\ UNCHANGED <<session, calls, timers, turnStats, incidents>>

NextPure == ApplyStages \/ ApplyShouldTrigger \/ ApplyShouldAdvise \/ ApplyStageNotice

SpecPure == InitPure /\ [][NextPure]_vars

\* --------------------------------------- the analysis parser, probed
\* An analysis text is a sequence of chunks: a marker of the template (a
\* bold title, the italic subtitle, the bold duration label with its blank, a
\* numbered bold heading, a bold label of the learner's answers), a line
\* break, a blank, or a run of plain text without asterisk and line break.
\* No two chunks of the texts below join to a marker.
TitleMark == "**CoLearn: Session Analysis**"
SubtitleMark == "*Learning insights from your dialogue session*"
DurationMark == "**Duration:** "
ContentLearningMark == "**Content Learning:**"
ProcessLearningMark == "**Process Learning:**"

\* the six headings of the template, and more that the pattern of the
\* split, two asterisks, digits, a dot, a blank, no asterisk, matches as
\* well: two other headings, and the first and the sixth in other letter case
HeadingTitles ==
  << "1. Session Summary", "2. How You Showed Your Thinking",
     "3. What You Figured Out", "4. Ideas You Could Explore Further",
     "5. Reflection Summary", "6. Learner Reflections",
     "7. Next Steps", "8. Notes",
     "1. SESSION SUMMARY", "6. learner reflections" >>
HeadingMarks ==
  << "**1. Session Summary**", "**2. How You Showed Your Thinking**",
     "**3. What You Figured Out**", "**4. Ideas You Could Explore Further**",
     "**5. Reflection Summary**", "**6. Learner Reflections**",
     "**7. Next Steps**", "**8. Notes**",
     "**1. SESSION SUMMARY**", "**6. learner reflections**" >>
\* the words of a title
WordsOf(title) ==
  CASE title = "1. Session Summary" -> << "1.", "Session", "Summary" >>
    [] title = "2. How You Showed Your Thinking"
         -> << "2.", "How", "You", "Showed", "Your", "Thinking" >>
    [] title = "3. What You Figured Out" -> << "3.", "What", "You", "Figured", "Out" >>
    [] title = "4. Ideas You Could Explore Further"
         -> << "4.", "Ideas", "You", "Could", "Explore", "Further" >>
    [] title = "5. Reflection Summary" -> << "5.", "Reflection", "Summary" >>
    [] title = "6. Learner Reflections" -> << "6.", "Learner", "Reflections" >>
    [] title = "7. Next Steps" -> << "7.", "Next", "Steps" >>
    [] title = "8. Notes" -> << "8.", "Notes" >>
    [] title = "1. SESSION SUMMARY" -> << "1.", "SESSION", "SUMMARY" >>
    [] title = "6. learner reflections" -> << "6.", "learner", "reflections" >>
    [] OTHER -> <<>>

\* String.prototype.includes, on words: the words of the name stand in the
\* words of the title, one after the other, in the same letter case
includes(words, name) ==
  \E i \in 0..(Len(words) - Len(name)) :
    \A j \in 1..Len(name) : words[i + j] = name[j]

\* the colours of a section: the chain of title.includes tests, the first
\* that holds decides; blue if none holds
tagOf(title) ==
  LET words == WordsOf(title)
  IN IF includes(words, << "Session", "Summary" >>) THEN "green"
     ELSE IF includes(words, << "How", "You", "Showed" >>) THEN "purple"
     ELSE IF includes(words, << "What", "You", "Figured" >>) THEN "orange"
     ELSE IF includes(words, << "Ideas", "You", "Could" >>) THEN "yellow"
     ELSE IF includes(words, << "Reflection", "Summary" >>) THEN "pink"
     ELSE IF includes(words, << "Learner", "Reflections" >>) THEN "gray"
     ELSE "blue"

IsHeading(chunk) == \E n \in 1..Len(HeadingMarks) : HeadingMarks[n] = chunk
HeadingTitle(chunk) ==
  HeadingTitles[CHOOSE n \in 1..Len(HeadingMarks) : HeadingMarks[n] = chunk]

\* the chunk begins with two asterisks
StartsBold(chunk) ==
  \/ chunk \in {TitleMark, DurationMark, ContentLearningMark, ProcessLearningMark}
  \/ IsHeading(chunk)

\* content.split(/\*\*(\d+\. [^*]+)\*\*/): the text before the first heading,
\* then for every heading its title and the text that follows it
RECURSIVE SplitAtHeadings(_, _)
SplitAtHeadings(content, piece) ==
  IF content = <<>> THEN << piece >>
  ELSE IF IsHeading(Head(content))
  THEN << piece, << HeadingTitle(Head(content)) >> >>
         \o SplitAtHeadings(Tail(content), <<>>)
  ELSE SplitAtHeadings(Tail(content), Append(piece, Head(content)))

titleMatch(content) == \E i \in 1..Len(content) : content[i] = TitleMark
subtitleMatch(content) == \E i \in 1..Len(content) : content[i] = SubtitleMark

\* the group (.+?) of the duration pattern behind the label at position i:
\* the shortest run of one or more characters without line break that two
\* asterisks or the end of the text follow; 0 if there is none.  A run of the
\* texts below begins with plain text.
DurationEnd(content, i) ==
  LET run == { j \in (i + 1)..Len(content) :
                 \A k \in (i + 1)..j : content[k] # NL /\ ~StartsBold(content[k]) }
      ends == { j \in run : j = Len(content) \/ StartsBold(content[j + 1]) }
  IN IF ends = {} THEN 0 ELSE CHOOSE j \in ends : \A k \in ends : j <= k

\* content.match(/\*\*Duration:\*\* (.+?)(?=\*\*|$)/): the group of the
\* first match, or null
durationMatch(content) ==
  LET starts == { i \in 1..Len(content) :
                    content[i] = DurationMark /\ DurationEnd(content, i) # 0 }
  IN IF starts = {} THEN Null
     ELSE LET i == CHOOSE i \in starts : \A k \in starts : i <= k
          IN Some(SubSeq(content, i + 1, DurationEnd(content, i)))

\* an element of the parser's result: the header block or a section
HeaderBlock(duration) ==
  [kind |-> "header", title |-> "CoLearn: Session Analysis",
   subtitle |-> "Learning insights from your dialogue session",
   duration |-> duration, body |-> <<>>, tag |-> "indigo"]
SectionBlock(title, body) ==
  [kind |-> "section", title |-> title, subtitle |-> "", duration |-> <<>>,
   body |-> body, tag |-> tagOf(title)]

\* the two replace calls on the body of the section "Learner Reflections"
RECURSIVE StrongLabels(_)
StrongLabels(content) ==
  IF content = <<>> THEN <<>>
  ELSE << IF Head(content) = ContentLearningMark
          THEN "<strong>Content Learning:</strong>"
          ELSE IF Head(content) = ProcessLearningMark
          THEN "<strong>Process Learning:</strong>"
          ELSE Head(content) >> \o StrongLabels(Tail(content))

\* the loop over the pieces of the split: sections[i] is a title,
\* sections[i + 1] its text (indices from 1 here, from 0 in the source)
RECURSIVE SectionBlocks(_, _)
SectionBlocks(sections, i) ==
  IF i > Len(sections) THEN <<>>
  ELSE LET title == sections[i]
           content == IF i + 1 <= Len(sections) THEN sections[i + 1] ELSE <<>>
       IN (IF title # <<>> /\ content # <<>>
           THEN << SectionBlock(title[1],
                     Trim(IF tagOf(title[1]) = "gray"
                          THEN StrongLabels(content) ELSE content)) >>
           ELSE <<>>) \o SectionBlocks(sections, i + 2)

\* variant: no section is returned when the text before the first heading
\* has no title
sectionResults_afterTitle(sections) ==
  IF titleMatch(sections[1]) THEN SectionBlocks(sections, 2) ELSE <<>>
\* the sections the loop pushes, from the first title on
sectionResults(sections) == SectionBlocks(sections, 2)

\* variant: a text without numbered heading becomes one section without title
parseAnalysis_rawSection(content) ==
  LET sections == SplitAtHeadings(content, <<>>)
  IN (IF titleMatch(content) /\ subtitleMatch(content) /\ durationMatch(content) # Null
      THEN << HeaderBlock(durationMatch(content)[1]) >>
      ELSE <<>>)
     \o (IF Len(sections) = 1 THEN << SectionBlock("", content) >>
         ELSE SectionBlocks(sections, 2))
\* the parser of the analysis screen: the blocks it renders
parseAnalysis(content) ==
  LET sections == SplitAtHeadings(content, <<>>)
  IN (IF titleMatch(content) /\ subtitleMatch(content) /\ durationMatch(content) # Null
      THEN << HeaderBlock(durationMatch(content)[1]) >>
      ELSE <<>>)
     \o sectionResults(sections)

\* the texts given to the parser: what comes before the template, the
\* header lines, the numbered sections
RawTexts == { <<>>, <<"reply">>, AnalysisErrorText }
TemplateHeader ==
  << TitleMark, NL, SubtitleMark, NL, NL, DurationMark, "12m 30s", NL, NL >>
\* the header lines with the duration closing the header's text
MatchingHeader == << TitleMark, NL, SubtitleMark, NL, DurationMark, "12m 30s" >>
HeaderTexts ==
  { <<>>, TemplateHeader, MatchingHeader,
    << TitleMark, NL, SubtitleMark, NL, NL >>,
    << SubtitleMark, NL, DurationMark, "12m 30s" >>,
    << TitleMark, NL, DurationMark, "12m 30s" >> }
BodyTexts ==
  { <<>>, << NL >>, << "body" >>, << NL, "body", NL, NL >>,
    << NL, WS, "body", WS, "more", NL >> }
LabelledBody ==
  << NL, ContentLearningMark, WS, "answer", NL,
     ProcessLearningMark, WS, "answer", NL >>

\* the text of the sections: k headings, ascending or descending, each with
\* the body, the last of the template with the learner's answers if labelled
SectionBody(n, body, labelled) ==
  IF labelled /\ HeadingTitles[n] = "6. Learner Reflections" THEN LabelledBody ELSE body
\* the n-th heading, or the same in other letter case where there is one
HeadingAs(n, otherCase) ==
  IF otherCase /\ n = 1 THEN 9 ELSE IF otherCase /\ n = 6 THEN 10 ELSE n
RECURSIVE SectionsText(_, _)
SectionsText(j, shape) ==
  IF j > shape.k THEN <<>>
  ELSE LET n == IF shape.up THEN j ELSE shape.k + 1 - j
       IN << HeadingMarks[HeadingAs(n, shape.otherCase)] >>
            \o SectionBody(n, shape.body, shape.labelled)
            \o SectionsText(j + 1, shape)

ParseShapes ==
  [raw : RawTexts, header : HeaderTexts, k : 0..MaxSections, up : BOOLEAN,
   body : BodyTexts, labelled : BOOLEAN, otherCase : BOOLEAN]
TextOf(shape) == shape.raw \o shape.header \o SectionsText(1, shape)

InitParse ==
  /\ sessionActive = FALSE /\ sessionLocked = FALSE
  /\ sourceText = <<>> /\ focusQuestion = <<>> /\ dialogue = <<>>
  /\ currentInput = <<>> /\ isProcessing = FALSE /\ reflectionPrompts = <<>>
  /\ showReflectionModal = FALSE /\ currentReflection = <<>>
  /\ sessionAnalysis = Null /\ exchangeCount = 0
  /\ showContinuePrompt = FALSE /\ showEndReflection = FALSE
  /\ endReflectionAnswers = NoAnswers /\ generatedProcessQuestion = <<>>
  /\ sessionStartTime = Null /\ sessionDuration = Null /\ reflectionInput = <<>>
  /\ hiddenDocumentContent = <<>> /\ documentUploaded = FALSE
  /\ calls = EmptyBag /\ timers = EmptyBag
  /\ turnStats = [ok |-> 0, failed |-> 0, alerts |-> 0, material |-> <<>>] /\ incidents = 0
  /\ \E shape \in ParseShapes :
       probe = [fn |-> "text", shape |-> shape, text |-> TextOf(shape),
                results |-> <<>>]

\* the analysis screen renders the text
ApplyParse ==
  /\ probe.fn = "text"
  /\ probe' = [probe EXCEPT !.fn = "parse", !.results = parseAnalysis(probe.text)]
  /\ UNCHANGED <<session, calls, timers, turnStats, incidents>>

NextParse == ApplyParse

SpecParse == InitParse /\ [][NextParse]_vars

\* ------------------------------------------------------------ properties
\* a deferred callback of handleSendMessage that resetSession found pending
StaleCallbackFires ==
  \E t \in Pending(timers) :
    /\ t.stale
    /\ t.kind \in {"stageNotice", "reflect", "continuePrompt"}
    /\ timers' = Take(timers, t)

\* C1: a deferred action of an earlier sendTurn (stage notice, reflection
\* trigger, ready-to-end advisory) that was pending at reset changes nothing
\* when it fires: the log, the reflection modal and the advisory flag stay as
\* they were.
C1_StaleCallbackChangesNothing ==
  [][StaleCallbackFires =>
       UNCHANGED <<dialogue, showReflectionModal, showContinuePrompt>>]_vars

\* number of gateway calls in flight for the session
LiveCallCount == BagCardinality([c \in LiveCalls |-> CopiesIn(c, calls)])

\* C2: in every reachable state at most one gateway call is in flight for
\* the session.
C2_AtMostOneCallInFlight == LiveCallCount <= 1

\* a call of sendTurn with the given text
SendTurnCalled(text) == SendMessageWith(text)

\* C3: a sendTurn call made with a text that is empty after trimming, or
\* while processing, or while locked, appends nothing to the log, leaves
\* exchangeCount and the processing flag as they are, dispatches no gateway
\* call and schedules nothing for later.
C3_RejectedSendIsNoOp ==
  [][\A text \in InputTexts :
       (SendTurnCalled(text) /\ (Trim(text) = <<>> \/ isProcessing \/ sessionLocked))
         => UNCHANGED <<dialogue, exchangeCount, isProcessing, calls, timers>>]_vars

\* a text is left in the message box only by a rejected call
C3_Witness ==
  /\ ActiveScreen
  /\ currentInput = <<"msg">>
  /\ isProcessing
  /\ ~sessionLocked

\* no turn of the session is awaiting the gateway
NoTurnInFlight == \A c \in LiveCalls : c.op # "turn"

\* C4: after start and k successful sendTurn calls, none failed and none
\* pending, with no reset in between, exchangeCount is 1 + k.
C4_ExchangeCountIsOnePlusTurns ==
  (sessionActive /\ turnStats.failed = 0 /\ NoTurnInFlight)
    => exchangeCount = 1 + turnStats.ok

C4_Witness ==
  /\ sessionActive /\ turnStats.failed = 0 /\ NoTurnInFlight
  /\ turnStats.ok = 5
  /\ exchangeCount = 6

\* the texts of the four places for each stage
GroundTexts ==
  << "EARLY STAGE", "Phase 1: Ground", "1: Ground", "Phase 1 (Ground) only" >>
StretchTexts ==
  << "MID STAGE", "Phase 2: Stretch", "2: Stretch", "Phases 1-2 (Ground, Stretch)" >>
DeepenTexts ==
  << "LATER STAGE", "Phase 3: Deepen", "3: Deepen",
     "All 3 Phases (Ground, Stretch, Deepen)" >>

LastUser(log) ==
  LET at == { i \in 1 .. Len(log) : log[i].type = "user" }
  IN IF at = {} THEN 0 ELSE CHOOSE i \in at : \A j \in at : j <= i

\* what the log holds after its last user entry
TurnTail(log) == SubSeq(log, LastUser(log) + 1, Len(log))

\* the current turn has met a gateway failure
TurnFailed ==
  \E i \in 1 .. Len(TurnTail(dialogue)) :
    TurnTail(dialogue)[i] = Entry("system", ContinueErrorText)

LiveTurnFails(c) ==
  /\ c.op = "turn"
  /\ calls' = Take(calls, c)
  /\ turnStats'.failed = turnStats.failed + 1

LiveAnalysisFails(c) ==
  /\ c.op = "analysis"
  /\ calls' = Take(calls, c)
  /\ incidents' = incidents + 1

\* handleEndReflectionSubmit of the session runs to its end
LiveAnalysisFinishes ==
  \/ \E c \in LiveCalls :
       c.op = "analysis" /\ calls' = Take(calls, c) /\ timers' = timers
  \/ \E t \in LiveTimers :
       t.kind = "analysisMinLoading" /\ timers' = Take(timers, t)

\* the analysis that stands in for a failed request: the fixed text and the
\* answers the learner had given
FailurePlaceholder(answers) ==
  [content |-> AnalysisErrorText,
   studentReflections |->
     [contentLearning |-> IF answers[1] = <<>> THEN <<"No reflection provided">>
                          ELSE answers[1],
      processLearning |-> IF answers[2] = <<>> THEN <<"No reflection provided">>
                          ELSE answers[2]]]

\* C11: when the gateway fails during submitEndReflection, analysis becomes
\* the failure placeholder (the fixed error text, the learner's answers kept)
\* and, when the handler has finished, the session is in Analyzed.
C11_FailedAnalysisGivesPlaceholder ==
  [][/\ \A c \in LiveCalls :
          LiveAnalysisFails(c) =>
            sessionAnalysis' = Some(FailurePlaceholder(c.answers))
     /\ (LiveAnalysisFinishes /\ sessionAnalysis' # Null
           /\ sessionAnalysis'[1].content = AnalysisErrorText)
          => (sessionActive' /\ ~showEndReflection' /\ ~isProcessing')]_vars

\* the analysis screen after a failed request, an answer having been given
C11_Witness ==
  /\ AnalysisScreen
  /\ ~isProcessing
  /\ sessionAnalysis[1].content = AnalysisErrorText
  /\ sessionAnalysis[1].studentReflections.contentLearning = <<"answer">>
  /\ sessionAnalysis[1].studentReflections.processLearning = <<"No reflection provided">>

\* ------------------------------------------- the end of a session, fair
\* the course of a session to its analysis: no gateway failure before the
\* lock, no manual or recorded reflection, no upload
NextLive ==
  \/ SetFocusQuestion \/ SetSourceText \/ StartSession
  \/ StartReplyOk
  \/ SendMessage \/ TurnReplyOk
  \/ FireStageNotice \/ FireContinuePrompt
  \/ FireReflect \/ ReflectReplyOk
  \/ SkipReflection
  \/ LockSession \/ LockReplyOk \/ LockReplyFail
  \/ SetEndReflectionAnswer \/ SubmitEndReflection \/ SkipEndReflection
  \/ FireAnalysisDelay \/ AnalysisReplyOk \/ AnalysisReplyFail
  \/ FireAnalysisMinLoading
  \/ ResetSession

\* a timer that has been set runs out, a gateway call returns or fails
SpecLive ==
  /\ Init /\ [][NextLive]_vars
  /\ WF_vars(FireAnalysisDelay)
  /\ WF_vars(AnalysisReplyOk \/ AnalysisReplyFail)
  /\ WF_vars(FireAnalysisMinLoading)

\* handleEndReflectionSubmit of the session has been called and not finished
SubmissionPending ==
  \/ \E t \in LiveTimers : t.kind \in {"analysisDelay", "analysisMinLoading"}
  \/ \E c \in LiveCalls : c.op = "analysis"

\* the session is in Analyzed and at rest
AnalyzedAtRest ==
  /\ sessionActive /\ sessionAnalysis # Null
  /\ ~showEndReflection
  /\ ~isProcessing

LiveCallbackFires ==
  \E t \in LiveTimers :
    /\ t.kind \in {"stageNotice", "reflect", "continuePrompt"}
    /\ timers' = Take(timers, t)

\* C13: once locked is true, a deferred action scheduled by an earlier
\* sendTurn does not open the reflection modal, does not set the advisory
\* flag and appends no stage notice to the log.
C13_NoCallbackAfterLock ==
  [][(sessionLocked /\ LiveCallbackFires) =>
       UNCHANGED <<dialogue, showReflectionModal, showContinuePrompt>>]_vars

\* lock, sendTurn or submitEndReflection is invoked (by either button each)
SessionOperationInvoked ==
  \/ LockSession
  \/ SendMessage
  \/ SubmitEndReflection
  \/ SkipEndReflection

\* C14: once analysis is set it is not set again and not overwritten, and no
\* lock, sendTurn or submitEndReflection changes the session, until reset.
C14_AnalysisIsFinal ==
  [][(sessionActive /\ sessionAnalysis # Null) =>
       /\ (sessionAnalysis' = sessionAnalysis \/ ~sessionActive')
       /\ ~SessionOperationInvoked]_vars

\* the reflection entries of the log, in order
ReflectionsOf(log) == SelectSeq(log, LAMBDA e : e.type = "reflection")

\* C15: the reflection entries of dialogueLog, in order, are the entries of
\* reflections: same count, same prompt, same response.
C15_ReflectionsMirrorLog == ReflectionsOf(dialogue) = reflectionPrompts

\* C16: duration is computed once, when lock sets locked, and does not
\* change afterwards until reset, whatever is invoked.
C16_DurationComputedOnce ==
  [][sessionDuration # Null =>
       (sessionDuration' = sessionDuration \/ sessionDuration' = Null)]_vars

\* startSession is called, by its button
StartCalled == StartSession

\* C17: a start with a focus question that is empty after trimming, or with
\* a source material (pasted text and uploaded content) that is empty after
\* trimming, changes no session state and makes no gateway call.
C17_RejectedStartChangesNothing ==
  [][(StartCalled
        /\ (\/ Trim(focusQuestion) = <<>>
            \/ (Trim(sourceText) = <<>> /\ Trim(hiddenDocumentContent) = <<>>)))
       => UNCHANGED <<session, calls, timers>>]_vars

\* a start refused for its source material: the box emptied, an uploaded
\* document of white space only
C17_Witness ==
  /\ SetupScreen
  /\ turnStats.alerts = 1
  /\ focusQuestion = <<"focus">>
  /\ sourceText = <<>>
  /\ hiddenDocumentContent = <<WS>>
  /\ dialogue = <<>> /\ exchangeCount = 0 /\ ~isProcessing /\ calls = EmptyBag

\* the opening gateway call of the session is pending
StartPending == \E c \in LiveCalls : c.op = "start"

\* the log as startSession sets it
OpeningLog ==
  << Entry("system", SessionStartedText(focusQuestion)),
     Entry("user", focusQuestion) >>

StartCompletes(c) == c.op = "start" /\ calls' = Take(calls, c)

IsPrefix(a, b) == Len(a) <= Len(b) /\ SubSeq(b, 1, Len(a)) = a

\* C19: between start and the next reset every change of dialogueLog appends
\* at its end: the log before is a prefix of the log after.
C19_LogIsAppendOnly ==
  [][(sessionActive /\ sessionActive') => IsPrefix(dialogue, dialogue')]_vars

\* a log that has grown by replies, a stage notice and a reflection
C19_Witness ==
  /\ sessionActive
  /\ CountType(dialogue, "ai") >= 5
  /\ CountType(dialogue, "system") >= 2
  /\ CountType(dialogue, "reflection") >= 1

\* C20: reset leaves every session field at its initial value: log and
\* reflections empty, exchangeCount 0, locked false, analysis, start time and
\* duration unset, advisory and end-reflection flags false, processing flag
\* false, reflection modal closed and current prompt empty.
C20_ResetRestoresInitialValues ==
  [][(sessionActive /\ ~sessionActive') =>
       /\ dialogue' = <<>> /\ reflectionPrompts' = <<>>
       /\ exchangeCount' = 0 /\ ~sessionLocked'
       /\ sessionAnalysis' = Null
       /\ sessionStartTime' = Null /\ sessionDuration' = Null
       /\ ~showContinuePrompt' /\ ~showEndReflection'
       /\ ~isProcessing'
       /\ ~showReflectionModal' /\ currentReflection' = <<>>]_vars

\* C21: between a start and the next reset the focus question does not
\* change, and the source material embedded in the prompt of every sendTurn
\* is the one embedded in the prompt of the start.
C21_SourceMaterialIsFixed ==
  [][/\ (sessionActive /\ sessionActive') => focusQuestion' = focusQuestion
     /\ \A c \in LiveCalls' :
          c.op = "turn" => c.material = turnStats'.material]_vars

\* C22: no reachable state has locked true while the dialogue screen is
\* shown (no end-reflection form, no analysis).
C22_NeverLockedWhileActive == ~(sessionLocked /\ ActiveScreen)

\* the gateway's failure reaches a reflection-question request of the session
LiveReflectFails(c) ==
  /\ c.op = "reflect"
  /\ calls' = Take(calls, c)
  /\ incidents' = incidents + 1

\* C23: when the gateway fails during reflection-question generation the
\* fixed fallback question, which is not empty, becomes the prompt, the
\* reflection modal is opened, and nothing is appended to the log.
C23_FailedQuestionFallsBack ==
  [][\A c \in LiveCalls :
       LiveReflectFails(c) =>
         /\ currentReflection' = LaterReflectionFallbackText
         /\ Trim(currentReflection') # <<>>
         /\ showReflectionModal'
         /\ dialogue' = dialogue]_vars

\* the modal shows the fallback question after a failed request
C23_Witness ==
  /\ sessionActive /\ exchangeCount >= 9
  /\ showReflectionModal
  /\ currentReflection = LaterReflectionFallbackText
  /\ \A c \in LiveCalls : c.op # "reflect"
  /\ CountType(dialogue, "system") = 3

\* the successful end of the turn that call c belongs to schedules a
\* reflection trigger
SchedulesReflect(c) ==
  CopiesIn(Timer("reflect", c.n, NoAnswers), timers')
    = CopiesIn(Timer("reflect", c.n, NoAnswers), timers) + 1

\* call c is a sendTurn of the session that ends with the gateway's reply
LiveTurnSucceeds(c) ==
  /\ c.op = "turn"
  /\ calls' = Take(calls, c)
  /\ turnStats'.ok = turnStats.ok + 1

\* C24: in a run of a start and 8 successful sendTurn calls the k-th sendTurn
\* makes exchangeCount k + 1; a reflection trigger is scheduled in the turns
\* that make it 4 and 8 (the 3rd and the 7th) and in no other; after the 8th
\* exchangeCount is 9 and the stage is Deepen.
C24_EightTurns ==
  [][/\ \A c \in LiveCalls :
          (LiveTurnSucceeds(c) /\ turnStats.failed = 0 /\ turnStats'.ok <= 8)
            => /\ c.n = turnStats'.ok + 1
               /\ SchedulesReflect(c) <=> c.n \in {4, 8}
     /\ (sessionActive' /\ turnStats'.ok = 8 /\ turnStats'.failed = 0
           /\ (\A c \in LiveCalls' : c.op # "turn"))
          => /\ exchangeCount' = 9
             /\ phaseLabel(exchangeCount') = "3: Deepen"
             /\ continuingStage(exchangeCount') = "LATER STAGE"]_vars

\* the state after the 8th successful sendTurn
C24_Witness ==
  /\ sessionActive
  /\ turnStats.ok = 8 /\ turnStats.failed = 0
  /\ exchangeCount = 9
  /\ calls = EmptyBag
  /\ CountType(dialogue, "ai") = 9 /\ CountType(dialogue, "user") = 9

\* C25: every reflection of reflections, and every reflection entry of the
\* log, has a prompt and a response that are not empty.
C25_ReflectionsAreComplete ==
  /\ \A i \in 1..Len(reflectionPrompts) :
       reflectionPrompts[i].prompt # <<>> /\ reflectionPrompts[i].content # <<>>
  /\ \A i \in 1..Len(dialogue) :
       dialogue[i].type = "reflection"
         => (dialogue[i].prompt # <<>> /\ dialogue[i].content # <<>>)

\* the section blocks of a result, in order
SectionsOf(results) == SelectSeq(results, LAMBDA b : b.kind = "section")

\* a text that follows the template: title, subtitle and duration lines,
\* then the headings 1 to 6 in order, each with a body that is not empty
WellFormedSix(shape) ==
  /\ shape.raw = <<>>
  /\ shape.header = TemplateHeader
  /\ shape.k = 6 /\ shape.up /\ ~shape.otherCase
  /\ shape.body # <<>>

\* C26: parsing a well-formed six-section text yields the header block with
\* title, subtitle and duration, then exactly 6 sections in the order of the
\* text, each with its heading as title and its trimmed body; to trim a body
\* again changes nothing.
C26_SixSectionsAndHeader ==
  (probe.fn = "parse" /\ WellFormedSix(probe.shape)) =>
    /\ Len(probe.results) = 7
    /\ probe.results[1] = HeaderBlock(<< "12m 30s" >>)
    /\ \A n \in 1..6 :
         /\ probe.results[n + 1]
              = SectionBlock(HeadingTitles[n],
                  Trim(SectionBody(n, probe.shape.body, probe.shape.labelled)))
         /\ Trim(probe.results[n + 1].body) = probe.results[n + 1].body

\* C27: for a text without numbered heading the parser returns a single
\* section without title whose body is the text as it is.
C27_TextWithoutHeadingIsOneSection ==
  (probe.fn = "parse" /\ probe.shape.k = 0) =>
    SectionsOf(probe.results) = << SectionBlock("", probe.text) >>

\* C28: parsing a text without numbered bold heading yields no section.
C28_TextWithoutHeadingHasNoSection ==
  (probe.fn = "parse" /\ probe.shape.k = 0) => SectionsOf(probe.results) = <<>>

\* the failure placeholder of the analysis, parsed: nothing to render
C28_Witness ==
  /\ probe.fn = "parse"
  /\ probe.shape.k = 0
  /\ probe.text = AnalysisErrorText
  /\ probe.results = <<>>

\* an accepted sendTurn of the session puts call c in flight
LiveTurnCalled(c) ==
  /\ c.op = "turn" /\ ~c.stale
  /\ CopiesIn(c, calls') = CopiesIn(c, calls) + 1

\* the directive of the continuation prompt that belongs to a stage
DirectiveOf(label) ==
  IF label = "1: Ground" THEN "EARLY STAGE"
  ELSE IF label = "2: Stretch" THEN "MID STAGE"
  ELSE "LATER STAGE"

\* C29: the stage directive of the prompt composed by an accepted sendTurn
\* is that of the stage of exchangeCount after the turn's increment: Stretch
\* for the turn that makes it 5, Deepen for the turn that makes it 9.
C29_DirectiveOfNewCount ==
  [][\A c \in Pending(calls') :
       LiveTurnCalled(c) =>
         /\ exchangeCount' = exchangeCount + 1
         /\ c.stage = DirectiveOf(phaseLabel(exchangeCount'))
         /\ exchangeCount' = 5 => c.stage = "MID STAGE"
         /\ exchangeCount' = 9 => c.stage = "LATER STAGE"
         /\ exchangeCount' \in 2..4 => c.stage = "EARLY STAGE"]_vars

\* the sendTurn that makes exchangeCount 9 is in flight
C29_Witness ==
  /\ exchangeCount = 9
  /\ \E c \in LiveCalls : c.op = "turn" /\ c.n = 9 /\ c.stage = "LATER STAGE"

\* the positions of the user and ai entries of a log
SpokenAt(log) == { i \in 1..Len(log) : log[i].type \in {"user", "ai"} }

\* C30: the message list of sendTurn holds, for every user and ai entry of
\* the log before the turn and in the order of the log, one message with the
\* role user or assistant and the entry's content, and after them, once, the
\* text just sent with the role user; system and reflection entries give no
\* message.
C30_MessagesAreSpokenEntriesThenText ==
  [][\A c \in Pending(calls') :
       LiveTurnCalled(c) =>
         /\ Len(c.messages) = Cardinality(SpokenAt(dialogue)) + 1
         /\ \A i \in SpokenAt(dialogue) :
              LET j == Cardinality({ k \in SpokenAt(dialogue) : k <= i })
              IN /\ c.messages[j].content = dialogue[i].content
                 /\ c.messages[j].role
                      = (IF dialogue[i].type = "user" THEN "user" ELSE "assistant")
         /\ dialogue' = Append(dialogue, Entry("user", dialogue'[Len(dialogue')].content))
         /\ c.messages[Len(c.messages)]
              = [role |-> "user", content |-> dialogue'[Len(dialogue')].content]]_vars

\* a sendTurn in flight whose log holds system and reflection entries
C30_Witness ==
  /\ CountType(dialogue, "system") >= 2
  /\ CountType(dialogue, "reflection") >= 1
  /\ \E c \in LiveCalls :
       /\ c.op = "turn" /\ c.n = 6
       /\ Len(c.messages) = 11
       /\ c.messages[11] = [role |-> "user", content |-> <<"msg">>]

\* a reflection trigger is scheduled: one more reflect timer is pending
ReflectTimers(bag) == { t \in Pending(bag) : t.kind = "reflect" }
ReflectTimerCount(bag) ==
  BagCardinality([t \in ReflectTimers(bag) |-> CopiesIn(t, bag)])
ReflectScheduled == ReflectTimerCount(timers') > ReflectTimerCount(timers)

\* the gateway call of a sendTurn ends, with a reply or with a failure
TurnEnds(c) == c.op = "turn" /\ calls' = Take(calls, c)

\* C31: a reflection trigger is scheduled only in the step in which a
\* sendTurn's gateway call has succeeded and its ai entry is appended; a
\* failed turn schedules none; the step that ends a turn clears the
\* processing flag and asks the gateway for no reflection question.
C31_TriggerFollowsReply ==
  [][/\ ReflectScheduled =>
          \E c \in Pending(calls) :
            /\ TurnEnds(c)
            /\ \E r \in ReplyTexts : dialogue' = Append(dialogue, Entry("ai", r))
     /\ \A c \in Pending(calls) :
          TurnEnds(c) =>
            /\ ~isProcessing'
            /\ dialogue'[Len(dialogue')].type = "system" => ~ReflectScheduled
            /\ \A d \in Pending(calls') : d.op # "reflect" \/ d \in Pending(calls)]_vars

\* the turn that made exchangeCount 4 has its reply, the trigger is pending
\* and the flag is clear
C31_Witness ==
  /\ sessionActive /\ exchangeCount = 4
  /\ ~isProcessing
  /\ dialogue[Len(dialogue)].type = "ai"
  /\ \E t \in LiveTimers : t.kind = "reflect" /\ t.n = 4
  /\ calls = EmptyBag

\* the result has a header block
HasHeader(results) == \E i \in 1..Len(results) : results[i].kind = "header"

\* the three patterns of the header match the text
HeaderMatches(content) ==
  titleMatch(content) /\ subtitleMatch(content) /\ durationMatch(content) # Null

\* C32: when the title, the subtitle or the duration pattern does not match,
\* the parser returns no header block and the sections it returns for the
\* same text with a header that matches.
C32_SectionsWithoutHeader ==
  (probe.fn = "parse" /\ ~HeaderMatches(probe.text)) =>
    /\ ~HasHeader(probe.results)
    /\ LET withHeader == TextOf([probe.shape EXCEPT !.header = MatchingHeader])
       IN /\ HasHeader(parseAnalysis(withHeader))
          /\ probe.results = SectionsOf(parseAnalysis(withHeader))

\* six sections returned for a text whose header lacks the subtitle
C32_Witness ==
  /\ probe.fn = "parse"
  /\ probe.shape.header = << TitleMark, NL, DurationMark, "12m 30s" >>
  /\ probe.shape.k = 6
  /\ Len(probe.results) = 6
  /\ ~HasHeader(probe.results)

\* C33: no section the parser returns has an empty title or an empty body,
\* and every body it returns is trimmed: a section whose body is empty after
\* trimming is dropped.
C33_NoEmptySection ==
  probe.fn = "parse" =>
    \A i \in 1..Len(probe.results) :
      probe.results[i].kind = "section" =>
        /\ probe.results[i].title # ""
        /\ probe.results[i].body # <<>>
        /\ Trim(probe.results[i].body) = probe.results[i].body

\* a word in lower case
Lower(word) ==
  CASE word \in {"Session", "SESSION"} -> "session"
    [] word \in {"Summary", "SUMMARY"} -> "summary"
    [] word = "How" -> "how"
    [] word = "You" -> "you"
    [] word = "Showed" -> "showed"
    [] word = "What" -> "what"
    [] word = "Figured" -> "figured"
    [] word = "Ideas" -> "ideas"
    [] word = "Could" -> "could"
    [] word = "Reflection" -> "reflection"
    [] word = "Learner" -> "learner"
    [] word = "Reflections" -> "reflections"
    [] OTHER -> word
LowerAll(words) == [i \in 1..Len(words) |-> Lower(words[i])]

\* the table of known section names with their tags, in its order
KnownSections ==
  << [name |-> << "Session", "Summary" >>, tag |-> "green"],
     [name |-> << "How", "You", "Showed" >>, tag |-> "purple"],
     [name |-> << "What", "You", "Figured" >>, tag |-> "orange"],
     [name |-> << "Ideas", "You", "Could" >>, tag |-> "yellow"],
     [name |-> << "Reflection", "Summary" >>, tag |-> "pink"],
     [name |-> << "Learner", "Reflections" >>, tag |-> "gray"] >>

\* the name at position n of the table stands in the title, letter case aside
MatchesKnown(title, n) ==
  includes(LowerAll(WordsOf(title)), LowerAll(KnownSections[n].name))

\* C34: a heading's tag is that of the first name of the table that stands
\* in it, letter case aside, and the default tag if none does; headings that
\* differ in letter case only have the same tag.
C34_TagIgnoresLetterCase ==
  probe.fn = "parse" =>
    \A i \in 1..Len(probe.results) :
      probe.results[i].kind = "section" =>
        LET title == probe.results[i].title
            hits == { n \in 1..Len(KnownSections) : MatchesKnown(title, n) }
        IN probe.results[i].tag
             = (IF hits = {} THEN "blue"
                ELSE KnownSections[CHOOSE n \in hits : \A k \in hits : n <= k].tag)

\* the gateway's answer or failure arrives for a call that resetSession
\* found in flight
StaleCallEnds ==
  \E c \in Pending(calls) :
    /\ c.stale
    /\ c.op \in {"start", "turn", "lock", "analysis"}
    /\ calls' = Take(calls, c)

\* C35: the answer or the failure of a call made before a reset by start,
\* sendTurn, lock or submitEndReflection, arriving after the reset, appends
\* nothing to the log, does not open the end-reflection form and leaves the
\* analysis unset.
C35_StaleReplyChangesNothing ==
  [][StaleCallEnds =>
       UNCHANGED <<dialogue, showEndReflection, sessionAnalysis>>]_vars

\* the calls in flight that were issued with the processing flag set
FlaggedCalls == { c \in Pending(calls) : c.op \in {"start", "turn", "analysis"} }

\* C36: whenever a gateway call issued by start, sendTurn or
\* submitEndReflection is in flight, the processing flag is true.
C36_FlaggedCallMeansProcessing ==
  FlaggedCalls # {} => isProcessing

\* a turn's call is still in flight when the lock issued beside it has ended
\* and opened the end-reflection form
C36_Witness ==
  /\ showEndReflection
  /\ isProcessing
  /\ \E c \in LiveCalls : c.op = "turn"
  /\ \A c \in Pending(calls) : c.op # "lock"

\* the number of user entries of a log
UserEntries(log) == CountType(log, "user")

\* the steps of start, of an accepted sendTurn and of reset
StartStep == ~sessionActive /\ sessionActive'
SendStep == \E t \in InputTexts : dialogue' = Append(dialogue, Entry("user", t))
ResetStep == sessionActive /\ ~sessionActive'

\* C37: between start and reset, exchangeCount is the number of user entries
\* of the log; only start, an accepted sendTurn and reset change exchangeCount
\* (lock, the end-reflection submission, a recorded reflection and the
\* deferred callbacks leave it as it is).
C37_CountIsUserEntries ==
  /\ [](sessionActive => exchangeCount = UserEntries(dialogue))
  /\ [][exchangeCount' # exchangeCount => StartStep \/ SendStep \/ ResetStep]_vars

\* a locked session of three exchanges with a recorded reflection, on the
\* end-reflection form
C37_Witness ==
  /\ sessionActive /\ sessionLocked /\ showEndReflection
  /\ exchangeCount = 3
  /\ UserEntries(dialogue) = 3
  /\ reflectionPrompts # <<>>

\* a reply entry: the gateway's answer, or the error notice of a failed turn
IsReply(e) ==
  \/ e.type = "ai"
  \/ e.type = "system" /\ e.content \in {StartErrorText, ContinueErrorText}

\* the position of the first user entry of log after position i, or one past
\* the end of log
NextUser(log, i) ==
  LET later == { j \in i + 1 .. Len(log) : log[j].type = "user" }
  IN IF later = {} THEN Len(log) + 1
     ELSE CHOOSE j \in later : \A k \in later : j <= k

\* the number of reply entries between the user entry at i and the next one
RepliesTo(log, i) ==
  Cardinality({ j \in i + 1 .. NextUser(log, i) - 1 : IsReply(log[j]) })

UserPositions(log) == { i \in 1 .. Len(log) : log[i].type = "user" }

\* every user entry that is followed by another has exactly one reply between
\* them, and the last one has at most one
AnsweredOnce(log) ==
  \A i \in UserPositions(log) :
    IF NextUser(log, i) <= Len(log) THEN RepliesTo(log, i) = 1
    ELSE RepliesTo(log, i) <= 1

\* a turn of the log has no reply yet
Unanswered == \E i \in UserPositions(dialogue) : RepliesTo(dialogue, i) = 0

\* the turns of a session with their gateway failures, up to its end
\* reflection: no upload, no manual or recorded reflection, no gateway failure
\* of the lock
NextAnswered ==
  \/ SetFocusQuestion \/ SetSourceText \/ StartSession
  \/ StartReplyOk \/ StartReplyFail
  \/ SendMessage \/ TurnReplyOk \/ TurnReplyFail
  \/ FireStageNotice \/ FireContinuePrompt
  \/ FireReflect \/ ReflectReplyOk \/ SkipReflection
  \/ LockSession \/ LockReplyOk
  \/ ResetSession

\* every gateway call of start and of sendTurn returns or fails
SpecAnswered ==
  /\ Init /\ [][NextAnswered]_vars
  /\ WF_vars(StartReplyOk \/ StartReplyFail)
  /\ WF_vars(TurnReplyOk \/ TurnReplyFail)

\* C38: every accepted turn (the opening exchange of start and each accepted
\* sendTurn) is answered by exactly one reply entry, ai or system error,
\* appended before the next user entry; and a turn without its reply
\* eventually is no longer without it.
C38_EveryTurnAnsweredOnce ==
  /\ []AnsweredOnce(dialogue)
  /\ Unanswered ~> ~Unanswered


\* three turns, each with its reply, one of them the error notice of a
\* failed turn
C38_Witness ==
  /\ sessionActive
  /\ Cardinality(UserPositions(dialogue)) = 3
  /\ ~Unanswered
  /\ \E i \in 1 .. Len(dialogue) :
       dialogue[i] = Entry("system", ContinueErrorText)
  /\ \E i \in 1 .. Len(dialogue) : dialogue[i].type = "ai"

\* ------------------------------------------------ the lock, fair
\* the gateway call of lockSession returns or fails
SpecLocked ==
  /\ SpecLive
  /\ WF_vars(LockReplyOk \/ LockReplyFail)

\* lockSession of the session has been called and its gateway call is in flight
LockPending == \E c \in LiveCalls : c.op = "lock"

\* the end-reflection form is shown with a process question
QuestionReady ==
  /\ EndReflectionScreen
  /\ generatedProcessQuestion # <<>>

\* C39: every accepted lock eventually reaches EndReflection with a non-empty
\* process question (the fallback question when the gateway fails), unless the
\* session is reset before; the gateway call of the lock returns or fails.
C39_LockLeadsToQuestion ==
  LockPending ~> (QuestionReady \/ ~sessionActive)

====
